---------------------------- MODULE Spec2Model ----------------------------
(***************************************************************************)
(* A model of the lr-schedulers crate: twelve learning-rate schedulers,    *)
(* each a small mutable value with a constructor, step(loss) and           *)
(* get_lr(loss).                                                           *)
(*                                                                         *)
(* f64 values are modelled as extended rationals <<n, d>> in lowest terms  *)
(* with d >= 0: d > 0 is the rational n/d, <<1,0>> is +inf, <<-1,0>> is    *)
(* -inf and <<0,0>> is NaN.  Arithmetic is exact (no rounding), with the   *)
(* IEEE rules for the special values.  usize values are naturals; an       *)
(* integer division or remainder by zero panics.                           *)
(***************************************************************************)
EXTENDS Integers, Sequences, FiniteSets, TLC

(***************************************************************************)
(* Bounds of the model.                                                    *)
(***************************************************************************)
\* the number of step calls made on one instance
MaxSteps == 8
\* the largest init_step passed to a constructor
MaxInitStep == 3

(***************************************************************************)
(* f64 arithmetic.                                                         *)
(***************************************************************************)
Sgn(n) == IF n > 0 THEN 1 ELSE IF n < 0 THEN -1 ELSE 0

Abs(n) == IF n < 0 THEN -n ELSE n

RECURSIVE Gcd(_, _)
Gcd(a, b) == IF b = 0 THEN a ELSE Gcd(b, a % b)

Norm(n, d) ==
    IF d = 0 THEN <<Sgn(n), 0>>
    ELSE LET g == Gcd(Abs(n), Abs(d))
             s == Sgn(d)
         IN  <<(s * n) \div g, (s * d) \div g>>

NaN == <<0, 0>>
Inf == <<1, 0>>
NegInf == <<-1, 0>>
Zero == <<0, 1>>
One == <<1, 1>>
Half == <<1, 2>>

IsNaN(x) == x = NaN
IsFinite(x) == x[2] # 0

\* usize as f64
AsF64(n) == <<n, 1>>

FNeg(x) == <<-x[1], x[2]>>

FAdd(x, y) ==
    IF IsNaN(x) \/ IsNaN(y) THEN NaN
    ELSE IF x[2] = 0 /\ y[2] = 0 THEN (IF x = y THEN x ELSE NaN)
    ELSE IF x[2] = 0 THEN x
    ELSE IF y[2] = 0 THEN y
    ELSE Norm(x[1] * y[2] + y[1] * x[2], x[2] * y[2])

FSub(x, y) == FAdd(x, FNeg(y))

FMul(x, y) ==
    IF IsNaN(x) \/ IsNaN(y) THEN NaN
    ELSE IF x[2] = 0 \/ y[2] = 0 THEN <<Sgn(x[1]) * Sgn(y[1]), 0>>
    ELSE Norm(x[1] * y[1], x[2] * y[2])

FDiv(x, y) ==
    IF IsNaN(x) \/ IsNaN(y) THEN NaN
    ELSE IF x[2] = 0 /\ y[2] = 0 THEN NaN
    ELSE IF y[2] = 0 THEN Zero
    ELSE IF x[2] = 0 THEN <<(IF y[1] < 0 THEN -x[1] ELSE x[1]), 0>>
    ELSE IF y[1] = 0 THEN <<Sgn(x[1]), 0>>
    ELSE Norm(x[1] * y[2], x[2] * y[1])

FLt(x, y) ==
    IF IsNaN(x) \/ IsNaN(y) THEN FALSE
    ELSE IF x = Inf \/ y = NegInf THEN FALSE
    ELSE IF x = NegInf \/ y = Inf THEN TRUE
    ELSE x[1] * y[2] < y[1] * x[2]

FGt(x, y) == FLt(y, x)

FLe(x, y) == ~IsNaN(x) /\ ~IsNaN(y) /\ ~FLt(y, x)

FGe(x, y) == FLe(y, x)

\* f64::max and f64::min: a NaN operand is dropped
FMax(x, y) == IF IsNaN(x) THEN y ELSE IF IsNaN(y) THEN x ELSE IF FLt(x, y) THEN y ELSE x

FMin(x, y) == IF IsNaN(x) THEN y ELSE IF IsNaN(y) THEN x ELSE IF FLt(y, x) THEN y ELSE x

FAbs(x) == <<Abs(x[1]), x[2]>>

\* f64::mul_add: self * a + b
MulAdd(self, a, b) == FAdd(FMul(self, a), b)

\* `n as i32` of a usize n: the low 32 bits, read as a signed number
AsI32(n) ==
    IF n <= 2147483647 THEN n
    ELSE LET low == n % (2147483647 + 2147483647 + 2)
         IN  IF low <= 2147483647 THEN low ELSE low - 2147483647 - 2147483647 - 2

\* f64::powi
RECURSIVE Powi(_, _)
Powi(x, n) ==
    IF n = 0 THEN One
    ELSE IF n < 0 THEN FDiv(One, Powi(x, -n))
    ELSE FMul(x, Powi(x, n - 1))

\* f64::powf, for the integral exponents the model draws
Powf(x, p) == Powi(x, p)

\* f64::floor followed by `as usize` (a saturating cast: NaN and negatives give 0)
FloorAsUsize(x) ==
    IF x[2] = 0 THEN (IF x = Inf THEN 1000000 ELSE 0)
    ELSE IF x[1] < 0 THEN 0
    ELSE x[1] \div x[2]

\* Bhaskara's rational form of cos(pi * v), for v in [0, 1/2]
Bhaskara(v) ==
    LET v2 == FMul(v, v)
    IN  FDiv(FSub(One, FMul(AsF64(4), v2)), FAdd(One, v2))

(***************************************************************************)
(* f64::cos of pi * u.  cos is even and has period 2 pi, and               *)
(* cos(pi - t) = -cos(t): the argument is folded into [0, pi/2] by these   *)
(* identities and evaluated by Bhaskara's rational approximation, which is *)
(* exact wherever cos of a rational multiple of pi is rational (0, pi/3,   *)
(* pi/2, 2pi/3, pi) and strictly decreasing on [0, pi] as cos is.          *)
(***************************************************************************)
CosPi(u) ==
    IF ~IsFinite(u) THEN NaN
    ELSE LET n == Abs(u[1])
             d == u[2]
             r == n % (2 * d)
             v == Norm(IF r > d THEN 2 * d - r ELSE r, d)
         IN  IF 2 * v[1] <= v[2] THEN Bhaskara(v)
             ELSE FNeg(Bhaskara(FSub(One, v)))

(***************************************************************************)
(* ConstantLR (constant.rs; constantlr.rs is the same code with the        *)
(* counter named epoch).                                                   *)
(***************************************************************************)
ConstantLR_new(base_lr, factor, total_iters, init_step) ==
    [kind |-> "ConstantLR",
     lr |-> IF init_step < total_iters THEN FMul(factor, base_lr) ELSE base_lr,
     base_lr |-> base_lr,
     step |-> init_step,
     total_iters |-> total_iters]

\* faulty variant: the rate switches one step late
ConstantLR_step_late(self, loss) ==
    LET n == self.step + 1
    IN  [self EXCEPT !.step = n,
                     !.lr = IF n = self.total_iters + 1 THEN self.base_lr ELSE @]

ConstantLR_step(self, loss) ==
    LET n == self.step + 1
    IN  [self EXCEPT !.step = n,
                     !.lr = IF n = self.total_iters THEN self.base_lr ELSE @]

ConstantLR_get_lr(self, loss) == self.lr

(***************************************************************************)
(* ExponentialLR                                                           *)
(***************************************************************************)
ExponentialLR_new(base_lr, gamma, init_step) ==
    [kind |-> "ExponentialLR",
     lr |-> FMul(base_lr, Powi(gamma, AsI32(init_step))),
     gamma |-> gamma]

ExponentialLR_step(self, loss) == [self EXCEPT !.lr = FMul(@, self.gamma)]

ExponentialLR_get_lr(self, loss) == self.lr

(***************************************************************************)
(* StepLR.  init_step / step_size and self.step / self.step_size are usize *)
(* divisions: a zero step_size panics.                                     *)
(***************************************************************************)
StepLR_new_panics(step_size) == step_size = 0

StepLR_new(base_lr, step_size, gamma, init_step) ==
    [kind |-> "StepLR",
     lr |-> FMul(base_lr, Powi(gamma, AsI32(init_step \div step_size))),
     base_lr |-> base_lr,
     step |-> init_step,
     step_size |-> step_size,
     gamma |-> gamma]

StepLR_step_panics(self) == self.step_size = 0

\* faulty variant: the exponent is taken from the counter before the increment
StepLR_step_stale(self, loss) ==
    LET n == self.step + 1
    IN  [self EXCEPT !.step = n,
                     !.lr = FMul(self.base_lr,
                                 Powi(self.gamma, AsI32(self.step \div self.step_size)))]

StepLR_step(self, loss) ==
    LET n == self.step + 1
    IN  [self EXCEPT !.step = n,
                     !.lr = FMul(self.base_lr, Powi(self.gamma, AsI32(n \div self.step_size)))]

StepLR_get_lr(self, loss) == self.lr

(***************************************************************************)
(* MultiStepLR.  The milestones are a Vec<usize>, sorted by the            *)
(* constructor.                                                            *)
(***************************************************************************)
RECURSIVE Insert(_, _)
Insert(m, sorted) ==
    IF sorted = <<>> THEN <<m>>
    ELSE IF m <= Head(sorted) THEN <<m>> \o sorted
    ELSE <<Head(sorted)>> \o Insert(m, Tail(sorted))

RECURSIVE sort_unstable(_)
sort_unstable(v) == IF v = <<>> THEN <<>> ELSE Insert(Head(v), sort_unstable(Tail(v)))

\* milestones.iter().filter(|&&m| m <= step).count()
milestones_passed(milestones, step) ==
    Cardinality({i \in 1..Len(milestones) : milestones[i] <= step})

\* faulty variant: a milestone equal to init_step is not counted
MultiStepLR_new_strict(base_lr, milestones, gamma, init_step) ==
    LET sorted == sort_unstable(milestones)
        passed == Cardinality({i \in 1..Len(sorted) : sorted[i] < init_step})
    IN  [kind |-> "MultiStepLR",
         lr |-> FMul(base_lr, Powi(gamma, AsI32(passed))),
         base_lr |-> base_lr,
         step |-> init_step,
         milestones |-> sorted,
         gamma |-> gamma]

MultiStepLR_new(base_lr, milestones, gamma, init_step) ==
    LET sorted == sort_unstable(milestones)
    IN  [kind |-> "MultiStepLR",
         lr |-> FMul(base_lr, Powi(gamma, AsI32(milestones_passed(sorted, init_step)))),
         base_lr |-> base_lr,
         step |-> init_step,
         milestones |-> sorted,
         gamma |-> gamma]

\* faulty variant: a milestone takes effect one step after its counter
MultiStepLR_step_strict(self, loss) ==
    LET n == self.step + 1
        passed == Cardinality({i \in 1..Len(self.milestones) : self.milestones[i] < n})
    IN  [self EXCEPT !.step = n,
                     !.lr = FMul(self.base_lr, Powi(self.gamma, AsI32(passed)))]

MultiStepLR_step(self, loss) ==
    LET n == self.step + 1
    IN  [self EXCEPT !.step = n,
                     !.lr = FMul(self.base_lr,
                                 Powi(self.gamma,
                                      AsI32(milestones_passed(self.milestones, n))))]

MultiStepLR_get_lr(self, loss) == self.lr

(***************************************************************************)
(* LinearLR (linear.rs; linearlr.rs is the same code with the counter      *)
(* named epoch).                                                           *)
(***************************************************************************)
LinearLR_new(base_lr, start_factor, end_factor, total_iters, init_step) ==
    IF init_step >= total_iters
    THEN [kind |-> "LinearLR",
          lr |-> FMul(end_factor, base_lr),
          base_lr |-> base_lr,
          step |-> init_step,
          total_iters |-> total_iters,
          grad |-> Zero,
          start_factor |-> start_factor,
          end_factor |-> end_factor]
    ELSE LET grad == FDiv(FSub(end_factor, start_factor), AsF64(total_iters))
         IN  [kind |-> "LinearLR",
              lr |-> IF init_step = 0 THEN FMul(start_factor, base_lr)
                     ELSE FMul(base_lr, MulAdd(AsF64(init_step), grad, start_factor)),
              base_lr |-> base_lr,
              step |-> init_step,
              total_iters |-> total_iters,
              grad |-> grad,
              start_factor |-> start_factor,
              end_factor |-> end_factor]

\* faulty variant: the line is followed past total_iters
LinearLR_step_overshoot(self, loss) ==
    LET n == self.step + 1
    IN  [self EXCEPT !.step = n,
                     !.lr = IF n = self.total_iters
                            THEN FMul(self.end_factor, self.base_lr)
                            ELSE FMul(self.base_lr,
                                      MulAdd(AsF64(n), self.grad, self.start_factor))]

LinearLR_step(self, loss) ==
    LET n == self.step + 1
    IN  [self EXCEPT !.step = n,
                     !.lr = IF n >= self.total_iters
                            THEN FMul(self.end_factor, self.base_lr)
                            ELSE FMul(self.base_lr,
                                      MulAdd(AsF64(n), self.grad, self.start_factor))]

LinearLR_get_lr(self, loss) == self.lr

(***************************************************************************)
(* PolynomialLR                                                            *)
(***************************************************************************)
PolynomialLR_new(base_lr, total_iters, power, init_step) ==
    [kind |-> "PolynomialLR",
     lr |-> IF init_step >= total_iters THEN Zero
            ELSE LET factor == FSub(One, FDiv(AsF64(init_step), AsF64(total_iters)))
                 IN  FMul(base_lr, Powf(factor, power)),
     base_lr |-> base_lr,
     step |-> init_step,
     total_iters |-> total_iters,
     power |-> power]

PolynomialLR_step(self, loss) ==
    LET n == self.step + 1
    IN  [self EXCEPT
           !.step = n,
           !.lr = IF n >= self.total_iters THEN Zero
                  ELSE LET factor == FSub(One, FDiv(AsF64(n), AsF64(self.total_iters)))
                       IN  FMul(self.base_lr, Powf(factor, self.power))]

PolynomialLR_get_lr(self, loss) == self.lr

(***************************************************************************)
(* MultiplicativeLR.  lr_lambda is a closure Fn(usize) -> f64; the model   *)
(* holds the name of one of the closures of the crate's tests and          *)
(* examples and applies it with lr_lambda.                                 *)
(***************************************************************************)
lr_lambda(f, i) ==
    CASE f = "constant_decay" -> <<1, 2>>
      [] f = "variable_decay" -> IF i < 2 THEN <<1, 2>> ELSE <<2, 3>>
      [] f = "growth" -> <<3, 2>>
      [] OTHER -> One

RECURSIVE MultiplicativeLR_new_loop(_, _, _, _)
\* for i in i..init_step { lr *= lr_lambda(i) }
MultiplicativeLR_new_loop(lr, f, i, init_step) ==
    IF i >= init_step THEN lr
    ELSE MultiplicativeLR_new_loop(FMul(lr, lr_lambda(f, i)), f, i + 1, init_step)

MultiplicativeLR_new(base_lr, f, init_step) ==
    [kind |-> "MultiplicativeLR",
     lr |-> MultiplicativeLR_new_loop(base_lr, f, 0, init_step),
     step |-> init_step,
     lr_lambda |-> f]

\* faulty variant: the counter is incremented before lr_lambda is called
MultiplicativeLR_step_next_index(self, loss) ==
    [self EXCEPT !.lr = FMul(@, lr_lambda(self.lr_lambda, self.step + 1)),
                 !.step = @ + 1]

MultiplicativeLR_step(self, loss) ==
    [self EXCEPT !.lr = FMul(@, lr_lambda(self.lr_lambda, self.step)),
                 !.step = @ + 1]

MultiplicativeLR_get_lr(self, loss) == self.lr

(***************************************************************************)
(* CosineAnnealingLR                                                       *)
(***************************************************************************)
UMax(a, b) == IF a < b THEN b ELSE a

\* faulty variant: the counter is reduced modulo t_max, half the period
CosineAnnealingLR_periodic_factor_half_period(t, t_max) ==
    LET r == t % t_max
        phase == FDiv(AsF64(r), AsF64(t_max))
    IN  FMul(Half, FAdd(One, CosPi(phase)))

CosineAnnealingLR_periodic_factor(t, t_max) ==
    LET r == t % (2 * t_max)
        \* phase = r * PI / t_max, kept as the multiple of PI
        phase == FDiv(AsF64(r), AsF64(t_max))
    IN  FMul(Half, FAdd(One, CosPi(phase)))

CosineAnnealingLR_new(eta_0, eta_1, t_max_arg, init_step) ==
    LET t_max == UMax(t_max_arg, 1)
    IN  [kind |-> "CosineAnnealingLR",
         lr |-> IF init_step = 0 THEN eta_0
                ELSE MulAdd(FSub(eta_0, eta_1),
                            CosineAnnealingLR_periodic_factor(init_step, t_max), eta_1),
         eta_0 |-> eta_0,
         eta_1 |-> eta_1,
         step |-> init_step,
         t_max |-> t_max]

CosineAnnealingLR_step(self, loss) ==
    LET n == self.step + 1
    IN  [self EXCEPT
           !.step = n,
           !.lr = MulAdd(FSub(self.eta_0, self.eta_1),
                         CosineAnnealingLR_periodic_factor(n, self.t_max), self.eta_1)]

CosineAnnealingLR_get_lr(self, loss) == self.lr

(***************************************************************************)
(* CosineAnnealingWarmRestarts                                             *)
(***************************************************************************)
RECURSIVE CosineAnnealingWarmRestarts_step_loop_short(_, _, _)
\* faulty variant: the restart comes when step_cur reaches t_max
CosineAnnealingWarmRestarts_step_loop_short(step_cur, t_max, t_mult) ==
    IF step_cur >= t_max
    THEN CosineAnnealingWarmRestarts_step_loop_short(step_cur - t_max, t_max * t_mult, t_mult)
    ELSE <<step_cur, t_max>>

RECURSIVE CosineAnnealingWarmRestarts_step_loop(_, _, _)
\* step: while self.step_cur > self.t_max { self.step_cur -= self.t_max + 1; self.t_max *= self.t_mult; }
CosineAnnealingWarmRestarts_step_loop(step_cur, t_max, t_mult) ==
    IF step_cur > t_max
    THEN CosineAnnealingWarmRestarts_step_loop(step_cur - (t_max + 1), t_max * t_mult, t_mult)
    ELSE <<step_cur, t_max>>

CosineAnnealingWarmRestarts_periodic_factor(t, t_max) ==
    LET phase == FDiv(AsF64(t), AsF64(t_max))
    IN  FMul(Half, FAdd(One, CosPi(phase)))

RECURSIVE CosineAnnealingWarmRestarts_new_loop_short(_, _, _)
\* faulty variant: a period is taken to be t_max steps long, not t_max + 1
CosineAnnealingWarmRestarts_new_loop_short(step, t_max, t_mult) ==
    IF step > t_max
    THEN CosineAnnealingWarmRestarts_new_loop_short(step - t_max, t_max * t_mult, t_mult)
    ELSE <<step, t_max>>

RECURSIVE CosineAnnealingWarmRestarts_new_loop(_, _, _)
\* new: while step > t_max { step -= t_max + 1; t_max *= t_mult; }
CosineAnnealingWarmRestarts_new_loop(step, t_max, t_mult) ==
    IF step > t_max
    THEN CosineAnnealingWarmRestarts_new_loop(step - (t_max + 1), t_max * t_mult, t_mult)
    ELSE <<step, t_max>>

\* faulty variant: t_0 = 0 and t_mult = 0 are taken as given
CosineAnnealingWarmRestarts_new_uncoerced(eta_0, eta_1, t_0_arg, t_mult_arg, init_step) ==
    LET folded == CosineAnnealingWarmRestarts_new_loop(init_step, t_0_arg, t_mult_arg)
    IN  IF init_step = 0
        THEN [kind |-> "CosineAnnealingWarmRestarts",
              lr |-> eta_0, eta_0 |-> eta_0, eta_1 |-> eta_1,
              step_cur |-> 0, t_max |-> t_0_arg, t_mult |-> t_mult_arg]
        ELSE [kind |-> "CosineAnnealingWarmRestarts",
              lr |-> MulAdd(FSub(eta_0, eta_1),
                            CosineAnnealingWarmRestarts_periodic_factor(folded[1], folded[2]),
                            eta_1),
              eta_0 |-> eta_0, eta_1 |-> eta_1,
              step_cur |-> folded[1], t_max |-> folded[2], t_mult |-> t_mult_arg]

CosineAnnealingWarmRestarts_new(eta_0, eta_1, t_0_arg, t_mult_arg, init_step) ==
    LET t_mult == UMax(t_mult_arg, 1)
        t_0 == UMax(t_0_arg, 1)
        folded == CosineAnnealingWarmRestarts_new_loop(init_step, t_0, t_mult)
    IN  IF init_step = 0
        THEN [kind |-> "CosineAnnealingWarmRestarts",
              lr |-> eta_0, eta_0 |-> eta_0, eta_1 |-> eta_1,
              step_cur |-> 0, t_max |-> t_0, t_mult |-> t_mult]
        ELSE [kind |-> "CosineAnnealingWarmRestarts",
              lr |-> MulAdd(FSub(eta_0, eta_1),
                            CosineAnnealingWarmRestarts_periodic_factor(folded[1], folded[2]),
                            eta_1),
              eta_0 |-> eta_0, eta_1 |-> eta_1,
              step_cur |-> folded[1], t_max |-> folded[2], t_mult |-> t_mult]

\* faulty variant: a restart leaves t_max as it is
CosineAnnealingWarmRestarts_step_keeps_period(self, loss) ==
    LET step_cur == IF self.step_cur + 1 > self.t_max THEN 0 ELSE self.step_cur + 1
    IN  [self EXCEPT
           !.step_cur = step_cur,
           !.lr = MulAdd(FSub(self.eta_0, self.eta_1),
                         CosineAnnealingWarmRestarts_periodic_factor(step_cur, self.t_max),
                         self.eta_1)]

CosineAnnealingWarmRestarts_step(self, loss) ==
    LET folded == CosineAnnealingWarmRestarts_step_loop(self.step_cur + 1, self.t_max, self.t_mult)
    IN  [self EXCEPT
           !.step_cur = folded[1],
           !.t_max = folded[2],
           !.lr = MulAdd(FSub(self.eta_0, self.eta_1),
                         CosineAnnealingWarmRestarts_periodic_factor(folded[1], folded[2]),
                         self.eta_1)]

CosineAnnealingWarmRestarts_get_lr(self, loss) == self.lr

(***************************************************************************)
(* CyclicLR.  Option values are sequences: <<>> is None, <<v>> is Some(v). *)
(* scale_fn holds the name of a closure Fn(f64) -> f64 and its ScaleMode.  *)
(***************************************************************************)
unwrap_or(opt, default) == IF opt = <<>> THEN default ELSE opt[1]

scale_fn_call(f, x) ==
    CASE f = "cosine_fn" -> FMul(Half, FAdd(One, CosPi(x)))
      [] f = "linear_fn" -> FMul(x, <<1, 10>>)
      [] OTHER -> One

CyclicLR_new(base_lr, max_lr, step_size_up, step_size_down, mode, gamma, scale_fn) ==
    [kind |-> "CyclicLR",
     base_lr |-> base_lr,
     max_lr |-> max_lr,
     step_size_up |-> step_size_up,
     step_size_down |-> unwrap_or(step_size_down, step_size_up),
     mode |-> mode,
     gamma |-> gamma,
     scale_fn |-> <<>>,
     step_count |-> 0]

CyclicLR_with_scale_fn(base_lr, max_lr, step_size_up, step_size_down, mode, gamma, scale_fn) ==
    [kind |-> "CyclicLR",
     base_lr |-> base_lr,
     max_lr |-> max_lr,
     step_size_up |-> step_size_up,
     step_size_down |-> unwrap_or(step_size_down, step_size_up),
     mode |-> mode,
     gamma |-> gamma,
     scale_fn |-> scale_fn,
     step_count |-> 0]

\* step_count / cycle_length and step_count % cycle_length are usize operations
get_cycle_and_position_panics(self) == self.step_size_up + self.step_size_down = 0

\* faulty variant: the descending half rises from 0 again
get_cycle_and_position_no_descent(self) ==
    LET cycle_length == self.step_size_up + self.step_size_down
        cycle == 1 + (self.step_count \div cycle_length)
        p == self.step_count % cycle_length
        x == IF p <= self.step_size_up
             THEN FDiv(AsF64(p), AsF64(self.step_size_up))
             ELSE FDiv(AsF64(p - self.step_size_up), AsF64(self.step_size_down))
    IN  <<cycle, x>>

get_cycle_and_position(self) ==
    LET cycle_length == self.step_size_up + self.step_size_down
        cycle == 1 + (self.step_count \div cycle_length)
        p == self.step_count % cycle_length
        x == IF p <= self.step_size_up
             THEN FDiv(AsF64(p), AsF64(self.step_size_up))
             ELSE FSub(One, FDiv(AsF64(p - self.step_size_up), AsF64(self.step_size_down)))
    IN  <<cycle, x>>

\* faulty variant: ExpRange takes the position within the cycle as exponent
get_scale_factor_per_cycle(self, cycle, x) ==
    IF self.scale_fn # <<>>
    THEN IF self.scale_fn[1].mode = "Cycle"
         THEN scale_fn_call(self.scale_fn[1].f, AsF64(cycle))
         ELSE scale_fn_call(self.scale_fn[1].f,
                            AsF64(self.step_count % (self.step_size_up + self.step_size_down)))
    ELSE CASE self.mode = "Triangular" -> One
           [] self.mode = "Triangular2" -> FDiv(One, Powi(AsF64(2), AsI32(cycle - 1)))
           [] self.mode = "ExpRange" ->
                 Powi(self.gamma,
                      AsI32(self.step_count % (self.step_size_up + self.step_size_down)))

get_scale_factor(self, cycle, x) ==
    IF self.scale_fn # <<>>
    THEN IF self.scale_fn[1].mode = "Cycle"
         THEN scale_fn_call(self.scale_fn[1].f, AsF64(cycle))
         ELSE scale_fn_call(self.scale_fn[1].f,
                            AsF64(self.step_count % (self.step_size_up + self.step_size_down)))
    ELSE CASE self.mode = "Triangular" -> One
           [] self.mode = "Triangular2" -> FDiv(One, Powi(AsF64(2), AsI32(cycle - 1)))
           [] self.mode = "ExpRange" -> Powi(self.gamma, AsI32(self.step_count))

\* faulty variant: a step with a zero loss is not counted
CyclicLR_step_reads_loss(self, loss) ==
    [self EXCEPT !.step_count = IF loss = Zero THEN @ ELSE @ + 1]

CyclicLR_step(self, loss) == [self EXCEPT !.step_count = @ + 1]

CyclicLR_get_lr_panics(self) == get_cycle_and_position_panics(self)

CyclicLR_get_lr(self, loss) ==
    LET cx == get_cycle_and_position(self)
        scale_factor == get_scale_factor(self, cx[1], cx[2])
        amplitude == FMul(FSub(self.max_lr, self.base_lr), scale_factor)
    IN  FAdd(self.base_lr, FMul(amplitude, cx[2]))

(***************************************************************************)
(* OneCycleLR                                                              *)
(***************************************************************************)
OneCycleLR_warmup_steps(total_steps, pct_start) ==
    FloorAsUsize(FMul(AsF64(total_steps), pct_start))

\* faulty variant: the division by 2 is missing
OneCycleLR_half_steps_all(total_steps, pct_start) ==
    FloorAsUsize(FMul(AsF64(total_steps), FSub(One, pct_start)))

OneCycleLR_half_steps(total_steps, pct_start) ==
    FloorAsUsize(FDiv(FMul(AsF64(total_steps), FSub(One, pct_start)), AsF64(2)))

\* the usize subtractions of the constructor underflow
OneCycleLR_new_panics(total_steps, pct_start, three_phase) ==
    LET warmup_steps == OneCycleLR_warmup_steps(total_steps, pct_start)
    IN  \/ total_steps < warmup_steps
        \/ /\ three_phase
           /\ total_steps - warmup_steps < OneCycleLR_half_steps(total_steps, pct_start)

OneCycleLR_new(max_lr, total_steps, pct_start, anneal_strategy, div_factor, final_div_factor, three_phase) ==
    LET initial_lr == FDiv(max_lr, div_factor)
        min_lr == FDiv(initial_lr, final_div_factor)
        warmup_steps == OneCycleLR_warmup_steps(total_steps, pct_start)
        annealing_steps ==
            IF three_phase THEN OneCycleLR_half_steps(total_steps, pct_start)
            ELSE total_steps - warmup_steps
        final_annealing_steps ==
            IF three_phase THEN total_steps - warmup_steps - annealing_steps ELSE 0
    IN  [kind |-> "OneCycleLR",
         max_lr |-> max_lr,
         total_steps |-> total_steps,
         pct_start |-> pct_start,
         anneal_strategy |-> anneal_strategy,
         div_factor |-> div_factor,
         final_div_factor |-> final_div_factor,
         three_phase |-> three_phase,
         step_count |-> 0,
         initial_lr |-> initial_lr,
         min_lr |-> min_lr,
         warmup_steps |-> warmup_steps,
         annealing_steps |-> annealing_steps,
         final_annealing_steps |-> final_annealing_steps]

\* faulty variant: an empty phase reports the progress 0
get_phase_and_progress_empty_is_start(self) ==
    IF self.step_count <= self.warmup_steps
    THEN <<1, IF self.warmup_steps > 0
              THEN FDiv(AsF64(self.step_count), AsF64(self.warmup_steps))
              ELSE Zero>>
    ELSE IF self.step_count <= self.warmup_steps + self.annealing_steps
    THEN <<2, IF self.annealing_steps > 0
              THEN FDiv(AsF64(self.step_count - self.warmup_steps),
                        AsF64(self.annealing_steps))
              ELSE Zero>>
    ELSE <<3, FMin(IF self.final_annealing_steps > 0
                   THEN FDiv(AsF64(self.step_count - self.warmup_steps
                                   - self.annealing_steps),
                             AsF64(self.final_annealing_steps))
                   ELSE Zero,
                   One)>>

get_phase_and_progress(self) ==
    IF self.step_count <= self.warmup_steps
    THEN <<1, IF self.warmup_steps > 0
              THEN FDiv(AsF64(self.step_count), AsF64(self.warmup_steps))
              ELSE One>>
    ELSE IF self.step_count <= self.warmup_steps + self.annealing_steps
    THEN <<2, IF self.annealing_steps > 0
              THEN FDiv(AsF64(self.step_count - self.warmup_steps),
                        AsF64(self.annealing_steps))
              ELSE One>>
    ELSE <<3, FMin(IF self.final_annealing_steps > 0
                   THEN FDiv(AsF64(self.step_count - self.warmup_steps
                                   - self.annealing_steps),
                             AsF64(self.final_annealing_steps))
                   ELSE One,
                   One)>>

interpolate(self, start, end, progress) ==
    IF self.anneal_strategy = "Linear"
    THEN FAdd(start, FMul(FSub(end, start), progress))
    ELSE LET cosine_factor == FMul(Half, FAdd(One, CosPi(progress)))
         IN  FAdd(end, FMul(FSub(start, end), cosine_factor))

calculate_lr(self, phase, progress) ==
    CASE phase = 1 -> interpolate(self, self.initial_lr, self.max_lr, progress)
      [] phase = 2 -> interpolate(self, self.max_lr,
                                  IF self.three_phase THEN self.initial_lr ELSE self.min_lr,
                                  progress)
      [] phase = 3 -> interpolate(self, self.initial_lr, self.min_lr, progress)
      [] OTHER -> self.min_lr

\* faulty variant: the counter stops at total_steps
OneCycleLR_step_saturating(self, loss) ==
    [self EXCEPT !.step_count = IF @ >= self.total_steps THEN @ ELSE @ + 1]

OneCycleLR_step(self, loss) == [self EXCEPT !.step_count = @ + 1]

\* faulty variant: the schedule is still evaluated at step_count = total_steps
OneCycleLR_get_lr_strict(self, loss) ==
    IF self.step_count > self.total_steps THEN self.min_lr
    ELSE LET pp == get_phase_and_progress(self)
         IN  calculate_lr(self, pp[1], pp[2])

OneCycleLR_get_lr(self, loss) ==
    IF self.step_count >= self.total_steps THEN self.min_lr
    ELSE LET pp == get_phase_and_progress(self)
         IN  calculate_lr(self, pp[1], pp[2])

(***************************************************************************)
(* ReduceLROnPlateau                                                       *)
(***************************************************************************)
ReduceLROnPlateau_new(lr, mode, factor, patience, threshold, threshold_mode, cooldown, min_lr, eps) ==
    [kind |-> "ReduceLROnPlateau",
     lr |-> lr,
     mode |-> mode,
     factor |-> factor,
     patience |-> patience,
     threshold |-> threshold,
     threshold_mode |-> threshold_mode,
     cooldown |-> cooldown,
     min_lr |-> min_lr,
     eps |-> eps,
     best |-> IF mode = "Min" THEN Inf ELSE NegInf,
     num_bad_epochs |-> 0,
     cooldown_counter |-> 0]

is_better(self, current, best) ==
    LET threshold ==
            IF self.threshold_mode = "Rel"
            THEN IF self.mode = "Min" THEN FMul(best, FSub(One, self.threshold))
                 ELSE FMul(best, FAdd(One, self.threshold))
            ELSE IF self.mode = "Min" THEN FSub(best, self.threshold)
                 ELSE FAdd(best, self.threshold)
    IN  IF self.mode = "Min" THEN FLt(current, threshold) ELSE FGt(current, threshold)

in_cooldown(self) == self.cooldown_counter > 0

\* faulty variant: a reduction that eps suppresses resets nothing
reduce_lr_keeps_counters(self) ==
    LET old_lr == self.lr
        new_lr == FMax(FMul(old_lr, self.factor), self.min_lr)
    IN  IF FGt(FAbs(FSub(old_lr, new_lr)), self.eps)
        THEN [self EXCEPT !.lr = new_lr,
                          !.cooldown_counter = self.cooldown,
                          !.num_bad_epochs = 0]
        ELSE self

\* faulty variant: the bad epochs counted so far are kept
reduce_lr_keeps_bad_epochs(self) ==
    LET old_lr == self.lr
        new_lr == FMax(FMul(old_lr, self.factor), self.min_lr)
    IN  [self EXCEPT !.lr = IF FGt(FAbs(FSub(old_lr, new_lr)), self.eps) THEN new_lr ELSE @,
                     !.cooldown_counter = self.cooldown]

\* faulty variant: no cooldown is started
reduce_lr_no_cooldown(self) ==
    LET old_lr == self.lr
        new_lr == FMax(FMul(old_lr, self.factor), self.min_lr)
    IN  [self EXCEPT !.lr = IF FGt(FAbs(FSub(old_lr, new_lr)), self.eps) THEN new_lr ELSE @,
                     !.num_bad_epochs = 0]

reduce_lr(self) ==
    LET old_lr == self.lr
        new_lr == FMax(FMul(old_lr, self.factor), self.min_lr)
    IN  [self EXCEPT !.lr = IF FGt(FAbs(FSub(old_lr, new_lr)), self.eps) THEN new_lr ELSE @,
                     !.cooldown_counter = self.cooldown,
                     !.num_bad_epochs = 0]

\* faulty variant: with patience > 0 the reduction waits for one more bad epoch
ReduceLROnPlateau_step_trace_late(self, loss) ==
    LET current == loss
    IN  IF in_cooldown(self)
        THEN [self |-> [self EXCEPT !.cooldown_counter = @ - 1,
                                    !.best = IF is_better(self, current, self.best)
                                             THEN current ELSE @],
              reduced |-> FALSE]
        ELSE LET counted ==
                     IF is_better(self, current, self.best)
                     THEN [self EXCEPT !.best = current, !.num_bad_epochs = 0]
                     ELSE [self EXCEPT !.num_bad_epochs = @ + 1]
             IN  IF counted.patience = 0
                 THEN IF counted.num_bad_epochs > 0
                      THEN [self |-> reduce_lr(counted), reduced |-> TRUE]
                      ELSE [self |-> counted, reduced |-> FALSE]
                 ELSE IF counted.num_bad_epochs > counted.patience
                      THEN [self |-> reduce_lr(counted), reduced |-> TRUE]
                      ELSE [self |-> counted, reduced |-> FALSE]

\* faulty variant: bad epochs are counted during cooldown too
ReduceLROnPlateau_step_trace_counts_in_cooldown(self, loss) ==
    LET current == loss
    IN  IF in_cooldown(self)
        THEN [self |-> IF is_better(self, current, self.best)
                       THEN [self EXCEPT !.cooldown_counter = @ - 1, !.best = current]
                       ELSE [self EXCEPT !.cooldown_counter = @ - 1,
                                         !.num_bad_epochs = @ + 1],
              reduced |-> FALSE]
        ELSE LET counted ==
                     IF is_better(self, current, self.best)
                     THEN [self EXCEPT !.best = current, !.num_bad_epochs = 0]
                     ELSE [self EXCEPT !.num_bad_epochs = @ + 1]
             IN  IF counted.patience = 0
                 THEN IF counted.num_bad_epochs > 0
                      THEN [self |-> reduce_lr(counted), reduced |-> TRUE]
                      ELSE [self |-> counted, reduced |-> FALSE]
                 ELSE IF counted.num_bad_epochs >= counted.patience
                      THEN [self |-> reduce_lr(counted), reduced |-> TRUE]
                      ELSE [self |-> counted, reduced |-> FALSE]

\* step, with a record of whether it called reduce_lr
ReduceLROnPlateau_step_trace(self, loss) ==
    LET current == loss
    IN  IF in_cooldown(self)
        THEN [self |-> [self EXCEPT !.cooldown_counter = @ - 1,
                                    !.best = IF is_better(self, current, self.best)
                                             THEN current ELSE @],
              reduced |-> FALSE]
        ELSE LET counted ==
                     IF is_better(self, current, self.best)
                     THEN [self EXCEPT !.best = current, !.num_bad_epochs = 0]
                     ELSE [self EXCEPT !.num_bad_epochs = @ + 1]
             IN  IF counted.patience = 0
                 THEN IF counted.num_bad_epochs > 0
                      THEN [self |-> reduce_lr(counted), reduced |-> TRUE]
                      ELSE [self |-> counted, reduced |-> FALSE]
                 ELSE IF counted.num_bad_epochs >= counted.patience
                      THEN [self |-> reduce_lr(counted), reduced |-> TRUE]
                      ELSE [self |-> counted, reduced |-> FALSE]

ReduceLROnPlateau_step(self, loss) == ReduceLROnPlateau_step_trace(self, loss).self

\* faulty variant: the rate returned depends on the loss passed to get_lr
ReduceLROnPlateau_get_lr_reads_loss(self, loss) ==
    IF is_better(self, loss, self.best) THEN self.lr ELSE FMul(self.lr, self.factor)

ReduceLROnPlateau_get_lr(self, loss) == self.lr

(***************************************************************************)
(* trait Scheduler: the constructor, step and get_lr of each kind.         *)
(* A constructor's arguments are a record a with a.kind naming the type.   *)
(***************************************************************************)
new_panics(a) ==
    CASE a.kind = "StepLR" -> StepLR_new_panics(a.step_size)
      [] a.kind = "OneCycleLR" -> OneCycleLR_new_panics(a.total_steps, a.pct_start, a.three_phase)
      [] OTHER -> FALSE

new(a) ==
    CASE a.kind = "ConstantLR" -> ConstantLR_new(a.base_lr, a.factor, a.total_iters, a.init_step)
      [] a.kind = "ExponentialLR" -> ExponentialLR_new(a.base_lr, a.gamma, a.init_step)
      [] a.kind = "StepLR" -> StepLR_new(a.base_lr, a.step_size, a.gamma, a.init_step)
      [] a.kind = "MultiStepLR" -> MultiStepLR_new(a.base_lr, a.milestones, a.gamma, a.init_step)
      [] a.kind = "LinearLR" -> LinearLR_new(a.base_lr, a.start_factor, a.end_factor, a.total_iters, a.init_step)
      [] a.kind = "PolynomialLR" -> PolynomialLR_new(a.base_lr, a.total_iters, a.power, a.init_step)
      [] a.kind = "MultiplicativeLR" -> MultiplicativeLR_new(a.base_lr, a.lr_lambda, a.init_step)
      [] a.kind = "CosineAnnealingLR" -> CosineAnnealingLR_new(a.eta_0, a.eta_1, a.t_max, a.init_step)
      [] a.kind = "CosineAnnealingWarmRestarts" -> CosineAnnealingWarmRestarts_new(a.eta_0, a.eta_1, a.t_0, a.t_mult, a.init_step)
      [] a.kind = "CyclicLR" ->
            IF a.custom
            THEN CyclicLR_with_scale_fn(a.base_lr, a.max_lr, a.step_size_up, a.step_size_down, a.mode, a.gamma, a.scale_fn)
            ELSE CyclicLR_new(a.base_lr, a.max_lr, a.step_size_up, a.step_size_down, a.mode, a.gamma, a.scale_fn)
      [] a.kind = "OneCycleLR" -> OneCycleLR_new(a.max_lr, a.total_steps, a.pct_start, a.anneal_strategy, a.div_factor, a.final_div_factor, a.three_phase)
      [] a.kind = "ReduceLROnPlateau" -> ReduceLROnPlateau_new(a.lr, a.mode, a.factor, a.patience, a.threshold, a.threshold_mode, a.cooldown, a.min_lr, a.eps)

step_panics(self) == self.kind = "StepLR" /\ StepLR_step_panics(self)

step(self, loss) ==
    CASE self.kind = "ConstantLR" -> ConstantLR_step(self, loss)
      [] self.kind = "ExponentialLR" -> ExponentialLR_step(self, loss)
      [] self.kind = "StepLR" -> StepLR_step(self, loss)
      [] self.kind = "MultiStepLR" -> MultiStepLR_step(self, loss)
      [] self.kind = "LinearLR" -> LinearLR_step(self, loss)
      [] self.kind = "PolynomialLR" -> PolynomialLR_step(self, loss)
      [] self.kind = "MultiplicativeLR" -> MultiplicativeLR_step(self, loss)
      [] self.kind = "CosineAnnealingLR" -> CosineAnnealingLR_step(self, loss)
      [] self.kind = "CosineAnnealingWarmRestarts" -> CosineAnnealingWarmRestarts_step(self, loss)
      [] self.kind = "CyclicLR" -> CyclicLR_step(self, loss)
      [] self.kind = "OneCycleLR" -> OneCycleLR_step(self, loss)
      [] self.kind = "ReduceLROnPlateau" -> ReduceLROnPlateau_step(self, loss)

get_lr_panics(self) == self.kind = "CyclicLR" /\ CyclicLR_get_lr_panics(self)

get_lr(self, loss) ==
    CASE self.kind = "ConstantLR" -> ConstantLR_get_lr(self, loss)
      [] self.kind = "ExponentialLR" -> ExponentialLR_get_lr(self, loss)
      [] self.kind = "StepLR" -> StepLR_get_lr(self, loss)
      [] self.kind = "MultiStepLR" -> MultiStepLR_get_lr(self, loss)
      [] self.kind = "LinearLR" -> LinearLR_get_lr(self, loss)
      [] self.kind = "PolynomialLR" -> PolynomialLR_get_lr(self, loss)
      [] self.kind = "MultiplicativeLR" -> MultiplicativeLR_get_lr(self, loss)
      [] self.kind = "CosineAnnealingLR" -> CosineAnnealingLR_get_lr(self, loss)
      [] self.kind = "CosineAnnealingWarmRestarts" -> CosineAnnealingWarmRestarts_get_lr(self, loss)
      [] self.kind = "CyclicLR" -> CyclicLR_get_lr(self, loss)
      [] self.kind = "OneCycleLR" -> OneCycleLR_get_lr(self, loss)
      [] self.kind = "ReduceLROnPlateau" -> ReduceLROnPlateau_get_lr(self, loss)

(***************************************************************************)
(* The state: one scheduler instance and its caller, the training loop.    *)
(***************************************************************************)
VARIABLES
    sched,      \* the scheduler instance (its fields)
    args,       \* the arguments its constructor was called with
    prev,       \* the instance as it was before the last call
    lastOp,     \* the last call: "new", "step" or "get_lr"
    loss,       \* the argument of the last step or get_lr call
    ret,        \* what get_lr returned, <<>> when there is no call since the last step
    reduced,    \* the last call was a step that called reduce_lr
    reducedAt,  \* <<i, j>>: the last two step calls that called reduce_lr were the
                \* i-th and, before it, the j-th (0 when there is none)
    nsteps,     \* the number of step calls so far
    ngets,      \* the number of get_lr calls since the last step
    panicked    \* a call has panicked: the instance is gone

vars == <<sched, args, prev, lastOp, loss, ret, reduced, reducedAt, nsteps, ngets, panicked>>

\* the number of get_lr calls between two steps
MaxGets == 2
\* the largest count argument (total_iters, step_size, t_max, t_0, step_size_up, ...)
MaxCount == 3

InitSteps == 0..MaxInitStep
Counts == 0..MaxCount
\* the loss values the training loop passes
Losses == {Zero, One}
Metrics == {<<-3, 2>>, <<-1, 1>>, Zero, One}

Start(a) ==
    /\ args = a
    /\ panicked = new_panics(a)
    /\ sched = IF new_panics(a) THEN [kind |-> a.kind] ELSE new(a)
    /\ prev = sched
    /\ lastOp = "new"
    /\ loss = Zero
    /\ ret = <<>>
    /\ reduced = FALSE
    /\ reducedAt = <<0, 0>>
    /\ nsteps = 0
    /\ ngets = 0

Init_ConstantLR ==
    \E factor \in {Half, One, <<2, 1>>}, total_iters \in Counts, init_step \in InitSteps :
        Start([kind |-> "ConstantLR", base_lr |-> One, factor |-> factor,
               total_iters |-> total_iters, init_step |-> init_step])

Init_ExponentialLR ==
    \E base_lr \in {One, <<2, 1>>}, gamma \in {Zero, Half, <<2, 1>>}, init_step \in InitSteps :
        Start([kind |-> "ExponentialLR", base_lr |-> base_lr, gamma |-> gamma,
               init_step |-> init_step])

Init_StepLR ==
    \E step_size \in Counts, gamma \in {Half, <<1, 3>>}, init_step \in InitSteps :
        Start([kind |-> "StepLR", base_lr |-> One, step_size |-> step_size,
               gamma |-> gamma, init_step |-> init_step])

Init_MultiStepLR ==
    \E milestones \in {<<>>, <<2>>, <<1, 3>>, <<3, 1>>, <<2, 2>>, <<4, 2, 4>>},
       init_step \in InitSteps :
        Start([kind |-> "MultiStepLR", base_lr |-> One, milestones |-> milestones,
               gamma |-> Half, init_step |-> init_step])

Init_LinearLR ==
    \E start_factor \in {Half, <<2, 1>>}, end_factor \in {Half, One},
       total_iters \in Counts, init_step \in InitSteps :
        Start([kind |-> "LinearLR", base_lr |-> One, start_factor |-> start_factor,
               end_factor |-> end_factor, total_iters |-> total_iters,
               init_step |-> init_step])

Init_PolynomialLR ==
    \E total_iters \in Counts, power \in 0..2, init_step \in InitSteps :
        Start([kind |-> "PolynomialLR", base_lr |-> One, total_iters |-> total_iters,
               power |-> power, init_step |-> init_step])

Init_MultiplicativeLR ==
    \E f \in {"constant_decay", "variable_decay", "growth"}, init_step \in InitSteps :
        Start([kind |-> "MultiplicativeLR", base_lr |-> One, lr_lambda |-> f,
               init_step |-> init_step])

Init_CosineAnnealingLR ==
    \E eta_1 \in {Zero, <<1, 10>>}, t_max \in Counts, init_step \in InitSteps :
        Start([kind |-> "CosineAnnealingLR", eta_0 |-> One, eta_1 |-> eta_1,
               t_max |-> t_max, init_step |-> init_step])

Init_CosineAnnealingWarmRestarts ==
    \E t_0 \in Counts, t_mult \in 0..2, init_step \in InitSteps :
        Start([kind |-> "CosineAnnealingWarmRestarts", eta_0 |-> One, eta_1 |-> Zero,
               t_0 |-> t_0, t_mult |-> t_mult, init_step |-> init_step])

Init_CyclicLR ==
    \E step_size_up \in 0..2, step_size_down \in {<<>>, <<0>>, <<1>>, <<2>>, <<3>>},
       mode \in {"Triangular", "Triangular2", "ExpRange"},
       scale_fn \in {<<>>, <<[f |-> "cosine_fn", mode |-> "Cycle"]>>,
                     <<[f |-> "linear_fn", mode |-> "Iterations"]>>} :
        /\ scale_fn # <<>> => mode = "Triangular"
        /\ Start([kind |-> "CyclicLR", custom |-> scale_fn # <<>>,
                  base_lr |-> <<1, 10>>, max_lr |-> One,
                  step_size_up |-> step_size_up, step_size_down |-> step_size_down,
                  mode |-> mode, gamma |-> Half, scale_fn |-> scale_fn])

Init_OneCycleLR ==
    \E total_steps \in 0..(MaxCount + 1), pct_start \in {Zero, <<3, 10>>, Half, One},
       anneal_strategy \in {"Cos", "Linear"}, three_phase \in BOOLEAN :
        Start([kind |-> "OneCycleLR", max_lr |-> One, total_steps |-> total_steps,
               pct_start |-> pct_start, anneal_strategy |-> anneal_strategy,
               div_factor |-> <<2, 1>>, final_div_factor |-> <<4, 1>>,
               three_phase |-> three_phase])

Start_ReduceLROnPlateau(patiences, thresholds, threshold_modes, cooldowns, min_lrs, epss) ==
    \E mode \in {"Min", "Max"}, patience \in patiences, threshold \in thresholds,
       threshold_mode \in threshold_modes, cooldown \in cooldowns,
       min_lr \in min_lrs, eps \in epss :
        Start([kind |-> "ReduceLROnPlateau", lr |-> One, mode |-> mode, factor |-> Half,
               patience |-> patience, threshold |-> threshold,
               threshold_mode |-> threshold_mode, cooldown |-> cooldown,
               min_lr |-> min_lr, eps |-> eps])

\* a few plateau monitors beside the other eleven kinds
Init_ReduceLROnPlateau ==
    Start_ReduceLROnPlateau({0, 1}, {Zero}, {"Abs"}, {0, 1}, {Zero}, {Zero})

Init ==
    \/ Init_ConstantLR
    \/ Init_ExponentialLR
    \/ Init_StepLR
    \/ Init_MultiStepLR
    \/ Init_LinearLR
    \/ Init_PolynomialLR
    \/ Init_MultiplicativeLR
    \/ Init_CosineAnnealingLR
    \/ Init_CosineAnnealingWarmRestarts
    \/ Init_CyclicLR
    \/ Init_OneCycleLR
    \/ Init_ReduceLROnPlateau

(***************************************************************************)
(* The calls of the training loop.                                         *)
(***************************************************************************)
\* scheduler.step(l)
CallStep(l) ==
    /\ ~panicked
    /\ nsteps < MaxSteps
    /\ prev' = sched
    /\ panicked' = step_panics(sched)
    /\ sched' = IF step_panics(sched) THEN sched ELSE step(sched, l)
    /\ reduced' = (sched.kind = "ReduceLROnPlateau"
                   /\ ReduceLROnPlateau_step_trace(sched, l).reduced)
    /\ reducedAt' = IF reduced' THEN <<nsteps + 1, reducedAt[1]>> ELSE reducedAt
    /\ lastOp' = "step"
    /\ loss' = l
    /\ ret' = <<>>
    /\ nsteps' = nsteps + 1
    /\ ngets' = 0
    /\ UNCHANGED args

\* scheduler.get_lr(l): get_lr takes &self, the instance is not written
CallGetLr(l) ==
    /\ ~panicked
    /\ ngets < MaxGets
    /\ prev' = sched
    /\ panicked' = get_lr_panics(sched)
    /\ ret' = IF get_lr_panics(sched) THEN <<>> ELSE get_lr(sched, l)
    /\ lastOp' = "get_lr"
    /\ loss' = l
    /\ reduced' = FALSE
    /\ ngets' = ngets + 1
    /\ UNCHANGED <<sched, args, nsteps, reducedAt>>

ConstantLR_Step == sched.kind = "ConstantLR" /\ \E l \in Losses : CallStep(l)
ConstantLR_GetLr == sched.kind = "ConstantLR" /\ \E l \in Losses : CallGetLr(l)
ExponentialLR_Step == sched.kind = "ExponentialLR" /\ \E l \in Losses : CallStep(l)
ExponentialLR_GetLr == sched.kind = "ExponentialLR" /\ \E l \in Losses : CallGetLr(l)
StepLR_Step == sched.kind = "StepLR" /\ \E l \in Losses : CallStep(l)
StepLR_GetLr == sched.kind = "StepLR" /\ \E l \in Losses : CallGetLr(l)
MultiStepLR_Step == sched.kind = "MultiStepLR" /\ \E l \in Losses : CallStep(l)
MultiStepLR_GetLr == sched.kind = "MultiStepLR" /\ \E l \in Losses : CallGetLr(l)
LinearLR_Step == sched.kind = "LinearLR" /\ \E l \in Losses : CallStep(l)
LinearLR_GetLr == sched.kind = "LinearLR" /\ \E l \in Losses : CallGetLr(l)
PolynomialLR_Step == sched.kind = "PolynomialLR" /\ \E l \in Losses : CallStep(l)
PolynomialLR_GetLr == sched.kind = "PolynomialLR" /\ \E l \in Losses : CallGetLr(l)
MultiplicativeLR_Step == sched.kind = "MultiplicativeLR" /\ \E l \in Losses : CallStep(l)
MultiplicativeLR_GetLr == sched.kind = "MultiplicativeLR" /\ \E l \in Losses : CallGetLr(l)
CosineAnnealingLR_Step == sched.kind = "CosineAnnealingLR" /\ \E l \in Losses : CallStep(l)
CosineAnnealingLR_GetLr == sched.kind = "CosineAnnealingLR" /\ \E l \in Losses : CallGetLr(l)
CosineAnnealingWarmRestarts_Step == sched.kind = "CosineAnnealingWarmRestarts" /\ \E l \in Losses : CallStep(l)
CosineAnnealingWarmRestarts_GetLr == sched.kind = "CosineAnnealingWarmRestarts" /\ \E l \in Losses : CallGetLr(l)
CyclicLR_Step == sched.kind = "CyclicLR" /\ \E l \in Losses : CallStep(l)
CyclicLR_GetLr == sched.kind = "CyclicLR" /\ \E l \in Losses : CallGetLr(l)
OneCycleLR_Step == sched.kind = "OneCycleLR" /\ \E l \in Losses : CallStep(l)
OneCycleLR_GetLr == sched.kind = "OneCycleLR" /\ \E l \in Losses : CallGetLr(l)
ReduceLROnPlateau_Step == sched.kind = "ReduceLROnPlateau" /\ \E l \in Metrics : CallStep(l)
ReduceLROnPlateau_GetLr == sched.kind = "ReduceLROnPlateau" /\ \E l \in Losses : CallGetLr(l)

Next ==
    \/ ConstantLR_Step
    \/ ConstantLR_GetLr
    \/ ExponentialLR_Step
    \/ ExponentialLR_GetLr
    \/ StepLR_Step
    \/ StepLR_GetLr
    \/ MultiStepLR_Step
    \/ MultiStepLR_GetLr
    \/ LinearLR_Step
    \/ LinearLR_GetLr
    \/ PolynomialLR_Step
    \/ PolynomialLR_GetLr
    \/ MultiplicativeLR_Step
    \/ MultiplicativeLR_GetLr
    \/ CosineAnnealingLR_Step
    \/ CosineAnnealingLR_GetLr
    \/ CosineAnnealingWarmRestarts_Step
    \/ CosineAnnealingWarmRestarts_GetLr
    \/ CyclicLR_Step
    \/ CyclicLR_GetLr
    \/ OneCycleLR_Step
    \/ OneCycleLR_GetLr
    \/ ReduceLROnPlateau_Step
    \/ ReduceLROnPlateau_GetLr

Spec == Init /\ [][Next]_vars

(***************************************************************************)
(* The plateau monitor alone, over its modes, patience, thresholds,        *)
(* cooldown, min_lr and eps.                                               *)
(***************************************************************************)
InitPlateau ==
    Start_ReduceLROnPlateau(0..2, {Zero, Half}, {"Rel", "Abs"}, 0..2,
                            {Zero, <<1, 4>>, <<2, 1>>}, {Zero, <<1, 4>>})

NextPlateau ==
    \/ ReduceLROnPlateau_Step
    \/ ReduceLROnPlateau_GetLr

SpecPlateau == InitPlateau /\ [][NextPlateau]_vars

(***************************************************************************)
(* Properties of all schedulers.                                           *)
(***************************************************************************)
RECURSIVE step_n(_, _)
\* self after n calls of step, each with loss 0
step_n(self, n) == IF n = 0 THEN self ELSE step_n(step(self, Zero), n - 1)

\* the instance the same constructor builds at init_step = 0
FromZero == new([args EXCEPT !.init_step = 0])

Resumable ==
    {"ConstantLR", "ExponentialLR", "StepLR", "MultiStepLR", "LinearLR",
     "PolynomialLR", "MultiplicativeLR", "CosineAnnealingLR"}

C2_ResumptionEquivalence ==
    (args.kind \in Resumable /\ ~panicked)
        => get_lr(sched, Zero)
             = get_lr(step_n(FromZero, args.init_step + nsteps), Zero)

\* a MultiStepLR built at a milestone (init_step = 2) has passed the next one too
C2_Witness ==
    /\ args.kind = "MultiStepLR"
    /\ args.milestones = <<4, 2, 4>>
    /\ args.init_step = 2
    /\ nsteps = 2
    /\ sched.lr = <<1, 8>>

(***************************************************************************)
(* C3: CosineAnnealingWarmRestarts constructed with init_step = k and      *)
(* stepped j times has the step_cur, t_max and rate of the instance        *)
(* constructed with init_step = 0 and stepped k + j times.                 *)
(***************************************************************************)
C3_WarmRestartsResumption ==
    (args.kind = "CosineAnnealingWarmRestarts")
        => LET ref == step_n(FromZero, args.init_step + nsteps)
           IN  /\ sched.step_cur = ref.step_cur
               /\ sched.t_max = ref.t_max
               /\ sched.lr = ref.lr

\* built after the first restart (t_0 = 2, init_step = 3), then stepped past the second
C3_Witness ==
    /\ args.kind = "CosineAnnealingWarmRestarts"
    /\ args.t_0 = 2
    /\ args.t_mult = 2
    /\ args.init_step = 3
    /\ nsteps = 5
    /\ sched.step_cur = 0
    /\ sched.t_max = 8

(***************************************************************************)
(* C4: for every scheduler but ReduceLROnPlateau the instance, and the     *)
(* rate it returns, depend on the number of step calls only: whatever      *)
(* losses were passed, the instance is the one that the same number of     *)
(* steps with loss 0 produce.                                              *)
(***************************************************************************)
C4_LossIgnored ==
    (args.kind # "ReduceLROnPlateau" /\ ~panicked)
        => /\ sched = step_n(new(args), nsteps)
           /\ ret # <<>> => ret = get_lr(step_n(new(args), nsteps), Zero)

\* a CyclicLR stepped three times, last with loss 1, then asked with loss 1
C4_Witness ==
    /\ args.kind = "CyclicLR"
    /\ nsteps = 3
    /\ sched.step_count = 3
    /\ lastOp = "get_lr"
    /\ loss = One
    /\ ret # <<>>

(***************************************************************************)
(* C10: ConstantLR returns factor * base_lr while its step counter is      *)
(* below total_iters and base_lr from then on, for every init_step and     *)
(* total_iters; once it returns base_lr it does so after every later step. *)
(***************************************************************************)
C10_ConstantLR ==
    (args.kind = "ConstantLR")
        => /\ sched.step = args.init_step + nsteps
           /\ get_lr(sched, Zero) = IF sched.step < args.total_iters
                                    THEN FMul(args.factor, args.base_lr)
                                    ELSE args.base_lr
           /\ (lastOp = "step" /\ get_lr(prev, Zero) = args.base_lr)
                 => get_lr(sched, Zero) = args.base_lr

\* the rate switched to base_lr during the run and a later step has kept it
C10_Witness ==
    /\ args.kind = "ConstantLR"
    /\ args.factor # One
    /\ args.init_step < args.total_iters
    /\ lastOp = "step"
    /\ prev.lr = args.base_lr
    /\ sched.lr = args.base_lr
    /\ sched.step > args.total_iters

(***************************************************************************)
(* Properties of ReduceLROnPlateau.  After a step call, prev is the        *)
(* monitor before the call, loss the metric passed and reduced tells       *)
(* whether the call triggered a reduction.                                 *)
(***************************************************************************)
IsPlateau == sched.kind = "ReduceLROnPlateau"

C6_Reduction ==
    (IsPlateau /\ lastOp = "step" /\ reduced)
        => LET new_lr == FMax(FMul(prev.lr, prev.factor), prev.min_lr)
           IN  /\ sched.lr = IF FGt(FAbs(FSub(prev.lr, new_lr)), prev.eps)
                             THEN new_lr ELSE prev.lr
               /\ sched.num_bad_epochs = 0
               /\ sched.cooldown_counter = sched.cooldown

\* eps keeps lr although new_lr differs from it, and the cooldown starts all the same
C6_Witness ==
    /\ IsPlateau
    /\ lastOp = "step"
    /\ reduced
    /\ prev.num_bad_epochs = 1
    /\ FMax(FMul(prev.lr, prev.factor), prev.min_lr) # prev.lr
    /\ sched.lr = prev.lr
    /\ sched.cooldown_counter = 2

(***************************************************************************)
(* C7: a step in cooldown decreases cooldown_counter by one, leaves lr     *)
(* and num_bad_epochs as they are whatever the metric, triggers no         *)
(* reduction, and replaces best by the metric exactly when the metric is   *)
(* an improvement.                                                         *)
(***************************************************************************)
C7_CooldownStep ==
    (IsPlateau /\ lastOp = "step" /\ prev.cooldown_counter > 0)
        => /\ sched.cooldown_counter = prev.cooldown_counter - 1
           /\ sched.lr = prev.lr
           /\ sched.num_bad_epochs = prev.num_bad_epochs
           /\ ~reduced
           /\ sched.best = IF is_better(prev, loss, prev.best) THEN loss ELSE prev.best

\* a worse metric during cooldown: nothing is counted
C7_Witness ==
    /\ IsPlateau
    /\ lastOp = "step"
    /\ prev.cooldown_counter = 2
    /\ sched.cooldown_counter = 1
    /\ sched.mode = "Min"
    /\ FGt(loss, prev.best)
    /\ sched.best = prev.best
    /\ sched.num_bad_epochs = 0

C9_MinLrLowerBound ==
    IsPlateau => FGe(get_lr(sched, Zero), sched.min_lr)

(***************************************************************************)
(* Properties of the step-counting schedulers.  n is the step counter:     *)
(* init_step plus the number of step calls made.                           *)
(***************************************************************************)
StepCounter == args.init_step + nsteps

PermsOf(s) ==
    IF s = <<>> THEN {<<>>}
    ELSE {[i \in 1..Len(s) |-> s[p[i]]] : p \in Permutations(1..Len(s))}

RECURSIVE Dedup(_)
\* a list without its repeated entries
Dedup(s) ==
    IF s = <<>> THEN <<>>
    ELSE IF \E i \in 2..Len(s) : s[i] = Head(s) THEN Dedup(Tail(s))
    ELSE <<Head(s)>> \o Dedup(Tail(s))

(***************************************************************************)
(* C13: duplicate milestones are harmless: at every step counter a         *)
(* milestone list gives the rate of the list with its duplicates removed.  *)
(***************************************************************************)
C13_DuplicatesHarmless ==
    (args.kind = "MultiStepLR")
        => get_lr(sched, Zero)
             = get_lr(step_n(new([args EXCEPT !.milestones = Dedup(args.milestones)]),
                             nsteps), Zero)

(***************************************************************************)
(* C14: LinearLR and PolynomialLR saturate at total_iters: at every step   *)
(* counter n >= total_iters (total_iters = 0 and init_step >= total_iters  *)
(* included) the rate is the terminal value, end_factor * base_lr for      *)
(* LinearLR and 0 for PolynomialLR, and further steps keep it; below       *)
(* total_iters the LinearLR rate lies between start_factor * base_lr and   *)
(* end_factor * base_lr.                                                   *)
(***************************************************************************)
C14_Saturation ==
    /\ (args.kind = "LinearLR")
          => LET n == StepCounter
                 from == FMul(args.start_factor, args.base_lr)
                 to == FMul(args.end_factor, args.base_lr)
             IN  /\ sched.step = n
                 /\ n >= args.total_iters => get_lr(sched, Zero) = to
                 /\ n < args.total_iters
                      => /\ FLe(FMin(from, to), get_lr(sched, Zero))
                         /\ FLe(get_lr(sched, Zero), FMax(from, to))
                 /\ (lastOp = "step" /\ prev.step >= args.total_iters)
                      => get_lr(sched, Zero) = get_lr(prev, Zero)
    /\ (args.kind = "PolynomialLR")
          => LET n == StepCounter
             IN  /\ sched.step = n
                 /\ n >= args.total_iters => get_lr(sched, Zero) = Zero
                 /\ (lastOp = "step" /\ prev.step >= args.total_iters)
                      => get_lr(sched, Zero) = get_lr(prev, Zero)

\* a LinearLR from 2 down to 1/2 over 3 steps, stepped past its end
C14_Witness ==
    /\ args.kind = "LinearLR"
    /\ args.start_factor = <<2, 1>>
    /\ args.end_factor = Half
    /\ args.total_iters = 3
    /\ args.init_step = 1
    /\ lastOp = "step"
    /\ sched.step = 5
    /\ sched.lr = Half

RECURSIVE LambdaProduct(_, _)
\* lr_lambda(0) * ... * lr_lambda(n - 1)
LambdaProduct(f, n) ==
    IF n = 0 THEN One ELSE FMul(LambdaProduct(f, n - 1), lr_lambda(f, n - 1))

(***************************************************************************)
(* C15: MultiplicativeLR has, at step counter n, the rate base_lr *        *)
(* lr_lambda(0) * ... * lr_lambda(n-1); the step taken at counter n        *)
(* multiplies by lr_lambda(n) and sets the counter to n + 1, and the       *)
(* constructor applies the indices 0..init_step-1.                         *)
(***************************************************************************)
C15_MultiplicativeLR ==
    (args.kind = "MultiplicativeLR")
        => LET n == StepCounter
           IN  /\ sched.step = n
               /\ get_lr(sched, Zero)
                    = FMul(args.base_lr, LambdaProduct(args.lr_lambda, n))
               /\ lastOp = "step"
                    => /\ sched.step = prev.step + 1
                       /\ get_lr(sched, Zero)
                            = FMul(get_lr(prev, Zero), lr_lambda(args.lr_lambda, prev.step))

\* the epoch-dependent factor: the step from counter 1 takes lr_lambda(1) = 1/2
C15_Witness ==
    /\ args.kind = "MultiplicativeLR"
    /\ args.lr_lambda = "variable_decay"
    /\ args.init_step = 1
    /\ lastOp = "step"
    /\ sched.step = 3
    /\ prev.lr = <<1, 4>>
    /\ sched.lr = <<1, 6>>

RECURSIVE IsRestart(_, _, _, _)
\* the counter n is the start of a period, when the first period takes
\* len + extra steps and len is multiplied by t_mult from one to the next
IsRestart(n, len, t_mult, extra) ==
    IF n = 0 THEN TRUE
    ELSE IF n < len + extra THEN FALSE
    ELSE IsRestart(n - (len + extra), len * t_mult, t_mult, extra)

RECURSIVE PeriodOf(_, _, _)
\* the t_max of the period that the counter n lies in
PeriodOf(n, len, t_mult) ==
    IF n <= len THEN len ELSE PeriodOf(n - (len + 1), len * t_mult, t_mult)

C18_CyclePosition ==
    (args.kind = "CyclicLR" /\ sched.step_size_up >= 1 /\ sched.step_size_down >= 1)
        => LET up == sched.step_size_up
               down == sched.step_size_down
               p == nsteps % (up + down)
               x == get_cycle_and_position(sched)[2]
           IN  /\ sched.step_count = nsteps
               /\ x = IF p <= up THEN Norm(p, up) ELSE Norm(down - (p - up), down)
               /\ FLe(Zero, x) /\ FLe(x, One)
               /\ p = 0 => (x = Zero /\ get_lr(sched, Zero) = args.base_lr)
               /\ x = One <=> p = up
               /\ (p = up /\ args.mode = "Triangular" /\ args.scale_fn = <<>>)
                    => get_lr(sched, Zero) = args.max_lr

\* two steps up and one down: the fourth step is on the peak of the second cycle
C18_Witness ==
    /\ args.kind = "CyclicLR"
    /\ args.mode = "Triangular"
    /\ args.scale_fn = <<>>
    /\ sched.step_size_up = 2
    /\ sched.step_size_down = 1
    /\ sched.step_count = 5
    /\ lastOp = "get_lr"
    /\ ret = args.max_lr

(***************************************************************************)
(* C19: CyclicLR without a custom scale function scales the amplitude by   *)
(* 1 in Triangular mode, by 1 / 2^(c-1) in Triangular2 mode, where the     *)
(* cycle number c = 1 + floor(step_count / cycle_length) starts at 1 and   *)
(* increases by one every cycle_length steps, and by gamma^step_count in   *)
(* ExpRange mode, step_count being the number of all steps made.           *)
(***************************************************************************)
C19_ScaleFactor ==
    (args.kind = "CyclicLR" /\ args.scale_fn = <<>> /\ ~get_lr_panics(sched))
        => LET cycle_length == sched.step_size_up + sched.step_size_down
               c == 1 + (nsteps \div cycle_length)
               cx == get_cycle_and_position(sched)
               scale == CASE args.mode = "Triangular" -> One
                          [] args.mode = "Triangular2" -> Norm(1, 2 ^ (c - 1))
                          [] args.mode = "ExpRange" -> Powi(args.gamma, nsteps)
           IN  /\ cx[1] = c
               /\ nsteps = 0 => cx[1] = 1
               /\ get_scale_factor(sched, cx[1], cx[2]) = scale
               /\ get_lr(sched, Zero)
                    = FAdd(args.base_lr,
                           FMul(FMul(FSub(args.max_lr, args.base_lr), scale), cx[2]))
               /\ lastOp = "step"
                    => cx[1] = get_cycle_and_position(prev)[1]
                                 + (IF nsteps % cycle_length = 0 THEN 1 ELSE 0)

\* ExpRange in the second cycle: the exponent is 3, not the position 1
C19_Witness ==
    /\ args.kind = "CyclicLR"
    /\ args.mode = "ExpRange"
    /\ args.scale_fn = <<>>
    /\ sched.step_size_up = 1
    /\ sched.step_size_down = 1
    /\ sched.step_count = 3
    /\ lastOp = "get_lr"
    /\ ret = FAdd(args.base_lr, FMul(FSub(args.max_lr, args.base_lr), <<1, 8>>))

(***************************************************************************)
(* C20: OneCycleLR at step_count >= total_steps returns min_lr =           *)
(* max_lr / div_factor / final_div_factor from get_lr, with two or three   *)
(* phases and either anneal strategy, and does so after every further      *)
(* step.                                                                   *)
(***************************************************************************)
C20_OneCycleClamp ==
    (args.kind = "OneCycleLR" /\ ~panicked /\ nsteps >= args.total_steps)
        => LET min_lr == FDiv(FDiv(args.max_lr, args.div_factor), args.final_div_factor)
           IN  /\ sched.step_count = nsteps
               /\ get_lr(sched, Zero) = min_lr
               /\ ret # <<>> => ret = min_lr

\* three phases, cosine annealing, two steps past the end
C20_Witness ==
    /\ args.kind = "OneCycleLR"
    /\ args.three_phase
    /\ args.anneal_strategy = "Cos"
    /\ args.total_steps = 4
    /\ sched.step_count = 6
    /\ lastOp = "get_lr"
    /\ ret = <<1, 8>>

(***************************************************************************)
(* Properties of construction and of the step counters.                    *)
(***************************************************************************)
\* the step calls an instance stands for: its starting offset, where the
\* constructor takes one, plus the step calls made
StepsTaken == (IF "init_step" \in DOMAIN args THEN args.init_step ELSE 0) + nsteps

\* the constructor arguments a with the starting offset k, where the
\* constructor has a parameter for it (CyclicLR::new, with_scale_fn and
\* OneCycleLR::new have none and start at step_count = 0)
with_init_step(a, k) ==
    IF "init_step" \in DOMAIN a THEN [a EXCEPT !.init_step = k] ELSE a

(***************************************************************************)
(* C21: for every choice of the integer parameters, zero included, no      *)
(* constructor, step or get_lr call divides or takes a remainder by zero:  *)
(* none panics on an integer division (the panics of OneCycleLR::new are   *)
(* subtractions) and get_lr never returns the NaN of 0.0 / 0.0.            *)
(***************************************************************************)
C21_NoDivisionByZero ==
    /\ (args.kind # "OneCycleLR") => ~panicked
    /\ (~panicked /\ ~get_lr_panics(sched)) => ~IsNaN(get_lr(sched, Zero))

(***************************************************************************)
(* C22: every scheduler but ReduceLROnPlateau, CyclicLR and OneCycleLR     *)
(* included, can be constructed at a starting offset k so that its first   *)
(* get_lr is the rate of the instance constructed at offset 0 after k      *)
(* step calls.                                                             *)
(***************************************************************************)
C22_OffsetConstruction ==
    (args.kind # "ReduceLROnPlateau" /\ ~panicked /\ ~get_lr_panics(sched))
        => get_lr(new(with_init_step(args, StepsTaken)), Zero) = get_lr(sched, Zero)

(***************************************************************************)
(* C23: CosineAnnealingWarmRestarts at step_cur = t_max has the rate       *)
(* eta_1, and the step call made there sets step_cur to 0, multiplies      *)
(* t_max by t_mult and makes the rate eta_0; a step call made anywhere     *)
(* else adds one to step_cur and leaves t_max as it is.                    *)
(***************************************************************************)
C23_RestartBoundary ==
    (args.kind = "CosineAnnealingWarmRestarts")
        => /\ sched.step_cur = sched.t_max => get_lr(sched, Zero) = args.eta_1
           /\ lastOp = "step"
                => IF prev.step_cur = prev.t_max
                   THEN /\ get_lr(prev, Zero) = args.eta_1
                        /\ sched.step_cur = 0
                        /\ sched.t_max = prev.t_max * prev.t_mult
                        /\ get_lr(sched, Zero) = args.eta_0
                   ELSE /\ sched.step_cur = prev.step_cur + 1
                        /\ sched.t_max = prev.t_max

\* the step from the trough of a period of t_max = 3 into one of 6
C23_Witness ==
    /\ args.kind = "CosineAnnealingWarmRestarts"
    /\ lastOp = "step"
    /\ prev.step_cur = 3
    /\ prev.t_max = 3
    /\ prev.lr = Zero
    /\ sched.step_cur = 0
    /\ sched.t_max = 6
    /\ sched.lr = One

(***************************************************************************)
(* C24: CosineAnnealingWarmRestarts keeps 0 <= step_cur <= t_max,          *)
(* t_max >= 1 and t_mult >= 1 in every reachable state, for every t_0,     *)
(* t_mult (0 is coerced to 1) and init_step, so that the phase             *)
(* step_cur * pi / t_max lies in [0, pi].                                  *)
(***************************************************************************)
C24_FoldedCounter ==
    (args.kind = "CosineAnnealingWarmRestarts")
        => /\ 0 <= sched.step_cur
           /\ sched.step_cur <= sched.t_max
           /\ sched.t_max >= 1
           /\ sched.t_mult >= 1
           /\ LET phase == FDiv(AsF64(sched.step_cur), AsF64(sched.t_max))
              IN  FLe(Zero, phase) /\ FLe(phase, One)

\* t_0 = 0 and t_mult = 0, built at offset 3 and stepped twice
C24_Witness ==
    /\ args.kind = "CosineAnnealingWarmRestarts"
    /\ args.t_0 = 0
    /\ args.t_mult = 0
    /\ args.init_step = 3
    /\ nsteps = 2
    /\ sched.t_max = 1
    /\ sched.t_mult = 1
    /\ sched.step_cur = 1

\* the step counter an instance stores
Counter(self) ==
    CASE self.kind = "CosineAnnealingWarmRestarts" -> self.step_cur
      [] self.kind \in {"CyclicLR", "OneCycleLR"} -> self.step_count
      [] OTHER -> self.step

\* the rate at the counter value n, from the constructor parameters a alone
RateAt(a, n) ==
    IF a.kind \in {"CyclicLR", "OneCycleLR"}
    THEN get_lr([new(a) EXCEPT !.step_count = n], Zero)
    ELSE get_lr(new([a EXCEPT !.init_step = n]), Zero)

(***************************************************************************)
(* C25, as claimed: for every scheduler but ReduceLROnPlateau a step call  *)
(* adds exactly one to the stored step counter, which never decreases or   *)
(* resets, and the rate after the call is a function of the new counter    *)
(* value and the constructor parameters.  (ExponentialLR stores no         *)
(* counter; the claim is stated for the ten kinds that store one.)         *)
(***************************************************************************)
C25_CounterNeverResets ==
    (/\ args.kind \notin {"ReduceLROnPlateau", "ExponentialLR"}
     /\ lastOp = "step" /\ ~panicked)
        => /\ Counter(sched) = Counter(prev) + 1
           /\ ~get_lr_panics(sched) => get_lr(sched, Zero) = RateAt(args, Counter(sched))

(***************************************************************************)
(* C25, amended: a step call adds exactly one to the stored counter of     *)
(* every scheduler but ReduceLROnPlateau, ExponentialLR (which stores      *)
(* none) and CosineAnnealingWarmRestarts, whose step_cur is added one or,  *)
(* at step_cur = t_max, reset to 0; for all eleven the rate after the call *)
(* is a function of the number of steps taken (the starting offset plus    *)
(* the step calls) and the constructor parameters.                         *)
(***************************************************************************)
C25_StepAdvances ==
    (args.kind # "ReduceLROnPlateau" /\ lastOp = "step" /\ ~panicked)
        => /\ args.kind \notin {"ExponentialLR", "CosineAnnealingWarmRestarts"}
                => /\ Counter(sched) = Counter(prev) + 1
                   /\ Counter(sched) = StepsTaken
           /\ args.kind = "CosineAnnealingWarmRestarts"
                => \/ Counter(sched) = Counter(prev) + 1
                   \/ Counter(prev) = prev.t_max /\ Counter(sched) = 0
           /\ ~get_lr_panics(sched) => get_lr(sched, Zero) = RateAt(args, StepsTaken)

\* a OneCycleLR stepped past its total_steps: the counter goes on
C25_Witness ==
    /\ args.kind = "OneCycleLR"
    /\ args.total_steps = 2
    /\ lastOp = "step"
    /\ prev.step_count = 3
    /\ sched.step_count = 4

(***************************************************************************)
(* C26: OneCycleLR::new, for every total_steps >= 0 and pct_start in       *)
(* [0, 1]: no subtraction underflows, warmup_steps + annealing_steps +     *)
(* final_annealing_steps = total_steps, final_annealing_steps = 0 with two *)
(* phases and annealing_steps <= final_annealing_steps with three.         *)
(***************************************************************************)
C26_PhaseSteps ==
    (args.kind = "OneCycleLR")
        => /\ ~panicked
           /\ sched.warmup_steps
                = (args.total_steps * args.pct_start[1]) \div args.pct_start[2]
           /\ sched.warmup_steps <= args.total_steps
           /\ sched.warmup_steps + sched.annealing_steps + sched.final_annealing_steps
                = args.total_steps
           /\ ~args.three_phase => sched.final_annealing_steps = 0
           /\ args.three_phase
                => /\ sched.warmup_steps + sched.annealing_steps <= args.total_steps
                   /\ sched.annealing_steps <= sched.final_annealing_steps

\* three phases over 4 steps with pct_start = 0.3: 1 + 1 + 2
C26_Witness ==
    /\ args.kind = "OneCycleLR"
    /\ args.three_phase
    /\ args.total_steps = 4
    /\ args.pct_start = <<3, 10>>
    /\ sched.warmup_steps = 1
    /\ sched.annealing_steps = 1
    /\ sched.final_annealing_steps = 2

(***************************************************************************)
(* C27, as claimed: OneCycleLR with total_steps >= 1, for every pct_start  *)
(* in [0, 1], both modes and both strategies, returns max_lr at            *)
(* step_count = warmup_steps, and with warmup_steps > 0 returns            *)
(* initial_lr = max_lr / div_factor at step_count = 0.                     *)
(***************************************************************************)
C27_PeakAtWarmupEnd ==
    (args.kind = "OneCycleLR" /\ ~panicked /\ args.total_steps >= 1)
        => /\ sched.step_count = sched.warmup_steps
                => get_lr(sched, Zero) = args.max_lr
           /\ (sched.warmup_steps > 0 /\ sched.step_count = 0)
                => get_lr(sched, Zero) = FDiv(args.max_lr, args.div_factor)

(***************************************************************************)
(* C27, amended: the rate at step_count = warmup_steps is max_lr when      *)
(* warmup_steps < total_steps; when warmup_steps = total_steps             *)
(* (pct_start = 1) it is min_lr, the rate from total_steps on.  With       *)
(* warmup_steps > 0 the rate at step_count = 0 is initial_lr.              *)
(***************************************************************************)
C27_PeakBeforeTotalSteps ==
    (args.kind = "OneCycleLR" /\ ~panicked /\ args.total_steps >= 1)
        => /\ (sched.step_count = sched.warmup_steps
                 /\ sched.warmup_steps < args.total_steps)
                => get_lr(sched, Zero) = args.max_lr
           /\ (sched.step_count = sched.warmup_steps
                 /\ sched.warmup_steps = args.total_steps)
                => get_lr(sched, Zero)
                     = FDiv(FDiv(args.max_lr, args.div_factor), args.final_div_factor)
           /\ (sched.warmup_steps > 0 /\ sched.step_count = 0)
                => get_lr(sched, Zero) = FDiv(args.max_lr, args.div_factor)

\* the end of a warmup of 2 steps out of 4: the peak
C27_Witness ==
    /\ args.kind = "OneCycleLR"
    /\ args.total_steps = 4
    /\ sched.warmup_steps = 2
    /\ sched.step_count = 2
    /\ lastOp = "get_lr"
    /\ ret = args.max_lr

(***************************************************************************)
(* Further properties of ReduceLROnPlateau.                                *)
(***************************************************************************)

C29_ReductionSpacing ==
    IsPlateau
        => /\ reducedAt[2] # 0
                => reducedAt[1] - reducedAt[2] >= sched.cooldown + UMax(sched.patience, 1)
           /\ (lastOp = "step" /\ reducedAt[1] # nsteps)
                => (~reduced /\ sched.lr = prev.lr)

\* cooldown = 0 and patience <= 1: two bad epochs in a row, two reductions
C29_Witness ==
    /\ IsPlateau
    /\ sched.cooldown = 0
    /\ sched.patience <= 1
    /\ lastOp = "step"
    /\ reducedAt[1] = nsteps
    /\ reducedAt[2] = nsteps - 1
    /\ reducedAt[2] >= 1
    /\ sched.lr = <<1, 4>>

(***************************************************************************)
(* C30: best moves in the mode's direction only: across a step call it     *)
(* never increases in Mode::Min and never decreases in Mode::Max, whatever *)
(* the threshold and the threshold mode, and it is the metric just passed  *)
(* or what it was (so always one of the metrics passed so far, or its      *)
(* initial infinity).                                                      *)
(***************************************************************************)
C30_BestMonotone ==
    (IsPlateau /\ lastOp = "step")
        => /\ sched.mode = "Min" => FLe(sched.best, prev.best)
           /\ sched.mode = "Max" => FGe(sched.best, prev.best)
           /\ sched.best \in {prev.best, loss}

=============================================================================
